---- MODULE Spec2Model ----
(***************************************************************************)
(* Order lifecycle of BuildFast-Shop: the order service                    *)
(* (src/features/orders/services/orderService.js), the product service     *)
(* and the orders migration (tables, CHECK constraints, row level security *)
(* policies and the order_items trigger, kept in README.md).               *)
(*                                                                         *)
(* Money.  The browser computes with JavaScript numbers, the store keeps   *)
(* DECIMAL(10,2).  A client-side amount is an integer number of mills      *)
(* (1/1000 of a dollar), a stored amount an integer number of cents, and   *)
(* ToDecimal2 is the rounding the store applies when it takes a number     *)
(* into a DECIMAL(10,2) column.                                            *)
(*                                                                         *)
(* Time.  NOW() is a logical clock that advances with every write          *)
(* transaction.  MaxTime bounds it: a call is cut off at its first write   *)
(* to the store once the clock has reached MaxTime, and MaxOrders bounds   *)
(* the rows of orders in the same way.                                     *)
(*                                                                         *)
(* Specifications.  Spec, SpecCatalog and SpecStore run every service call *)
(* and every statement as one action, from its first line to its return:   *)
(* Spec the order service, SpecCatalog the order service next to the       *)
(* product service, SpecStore the statements the policies and the trigger  *)
(* admit on orders and order_items.  SpecConc and SpecCancel run           *)
(* createOrder and cancelOrder one await at a time in the slots of         *)
(* Clients, so that other calls interleave with them; the code between two *)
(* awaits belongs to the step of the await before it.  All are built from  *)
(* the same operators.                                                     *)
(*                                                                         *)
(* Client.  SpecAuth runs the auth store, ProtectedRoute and the login     *)
(* page over the router's location; SpecProfile the customer profile       *)
(* service over the customers table; SpecOrdersHook, SpecHooks and         *)
(* SpecSearch the hooks useOrders, useOrder and useProductSearch, whose    *)
(* outstanding requests answer in any order; SpecImages createProduct and  *)
(* addProductImage one await at a time; SpecStats the two statistics,      *)
(* getOrderStats and get_customer_stats.  Each leaves the state of the     *)
(* others unchanged.                                                       *)
(***************************************************************************)
EXTENDS Integers, Sequences, FiniteSets, TLC

\* ---------------------------------------------------------------- bounds
MaxOrders == 1
MaxTime == 3
MaxOrdersRead == 2
MaxOrdersConc == 2
MaxFetches == 2
MaxImages == 3

\* ------------------------------------------------------------ input sets
Users == {"u1", "u2"}
NoUser == "anon"
Principals == Users \cup {NoUser}
Clients == {"c1", "c2"}
Products == {"p1", "p2"}

validStatuses == {"pending", "processing", "shipped", "delivered", "cancelled"}
StatusInputs == validStatuses \cup {"refunded"}

NullAddress == "<null>"
Addresses == {"123 Main St"}
\* orderData.shippingAddress as a caller may pass it: a text, '', or none at all
EmptyAddress == ""
AddressInputs == Addresses \cup {EmptyAddress, NullAddress}

\* cart lines {product_id, quantity, price}; price in mills
LineA == [product_id |-> "p1", quantity |-> 2, price |-> 89990]      \* 2 x 89.99
LineB == [product_id |-> "p2", quantity |-> 3, price |-> 199994]     \* 3 x 199.994
LineZ == [product_id |-> "p1", quantity |-> 0, price |-> 10000]      \* 0 x 10.00
CartLines == {LineA, LineB, LineZ}

\* the carts submitted: empty, one line, two lines, and one with a line of quantity 0
Carts == {<<>>, <<LineA>>, <<LineA, LineB>>, <<LineA, LineZ>>}

PriceInputs == {109990}
TotalInputs == {12340}
QuantityInputs == {1}

\* getUserOrders({ status, limit, offset }): no filter or one status, the default page
\* or a page of one row; getRecentOrders(limit): the default or one row
NoStatus == "<none>"
StatusFilters == {NoStatus, "pending"}
Limits == {1, 10}
Offsets == {0, 1}
RecentLimits == {1, 5}
\* the options argument of getUserOrders: an object, or null
NullOptions == [isNull |-> TRUE, status |-> NoStatus, limit |-> 10, offset |-> 0]
OptionInputs ==
  [isNull : {FALSE}, status : StatusFilters, limit : Limits, offset : Offsets]
    \cup {NullOptions}

\* the pages of the application: /login, public pages, and pages whose element is
\* wrapped in <ProtectedRoute>; a location is a pathname and a query string
LoginPath == "/login"
HomePath == "/"
ProtectedPaths == {"/checkout", "/orders"}
Paths == {HomePath, LoginPath} \cup ProtectedPaths
Searches == {"", "?page=2"}
\* user_metadata as updateProfile(updates) leaves it
MetaInputs == {0, 1}

\* updateCustomerProfile(updates): every key is absent or carries a value
Absent == "<absent>"
UpdatesInputs ==
  [id : {Absent, "u2"}, email : {Absent, "new@shop", "u2@shop"},
   full_name : {Absent, "Ann"}, created_at : {Absent, "2020"}]

\* useOrders({ status, limit, page }): the props a page passes
HookProps == [status : StatusFilters, limit : {10}, page : {1, 2}]

\* useProductSearch(searchTerm): strings as sequences of characters
SearchTerms == {<<>>, <<"a">>, <<" ", "a", " ">>, <<"a", "b">>, <<"a", "b", "c">>}

\* createProduct(productData, imageUrls): the number of image URLs
ImageCounts == {0, 2}

\* ------------------------------------------------------------- variables
VARIABLES
  orders,        \* table orders: sequence of rows, the index is the id
  order_items,   \* table order_items: set of rows
  nextItemId,    \* ids handed out to order_items rows
  products,      \* table products: product id -> price in cents
  now,           \* the store's clock
  pc,            \* slot -> position inside the call it is running (SpecConc)
  local,         \* slot -> locals of the running call (SpecConc)
  last,          \* what the call that returned last was given and returned
  authStore,     \* zustand auth store: user, session, loading
  authStorage,   \* localStorage entry 'auth-storage' written by persist
  authClient,    \* the Supabase auth client: its session, the store's listener
  router,        \* react-router: location, its state, what ProtectedRoute rendered
  customers,     \* table customers: user id -> row
  ordersHook,    \* useOrders: props and React state of the mounted hook
  fetches,       \* getUserOrders requests of useOrders not settled yet, oldest first
  orderHook,     \* useOrder: prop and React state of the mounted hook
  orderFetches,  \* getOrderById requests of useOrder not settled yet, oldest first
  searchHook,    \* useProductSearch: term and React state
  searches,      \* timers and requests of useProductSearch that are outstanding
  product_images,\* table product_images: set of rows
  imageCalls     \* slot -> position and locals of a running addProductImage

storeVars == <<orders, order_items, nextItemId, products, now, pc, local, last>>
authVars == <<authStore, authStorage, authClient, router>>
hookVars == <<ordersHook, fetches, orderHook, orderFetches>>
searchVars == <<searchHook, searches>>
imageVars == <<product_images, imageCalls>>
\* what the order service and the statements on orders leave alone
clientVars == <<authVars, customers, hookVars, searchVars, imageVars>>
vars == <<storeVars, clientVars>>
\* what the auth store, the router and the pages leave alone
\* what the customer service leaves alone
exceptCustomers ==
  <<orders, order_items, nextItemId, products, pc, local, authVars, hookVars,
    searchVars, imageVars>>
\* what the hooks of the orders feature leave alone
exceptHooks == <<storeVars, authVars, customers, searchVars, imageVars>>
\* what useProductSearch leaves alone
exceptSearch == <<storeVars, authVars, customers, hookVars, imageVars>>
\* what the image functions of the product service leave alone
exceptImages == <<storeVars, authVars, customers, hookVars, searchVars>>
exceptAuth == <<storeVars, customers, hookVars, searchVars, imageVars>>

\* ------------------------------------------------------------ arithmetic
\* numeric -> DECIMAL(10,2): round half away from zero
ToDecimal2(mills) ==
  IF mills >= 0 THEN (mills + 5) \div 10 ELSE -((5 - mills) \div 10)

\* cartItems.reduce((sum, item) => sum + item.price * item.quantity, 0)
RECURSIVE totalAmount(_)
totalAmount(cartItems) ==
  IF cartItems = <<>> THEN 0
  ELSE totalAmount(SubSeq(cartItems, 1, Len(cartItems) - 1))
       + cartItems[Len(cartItems)].price * cartItems[Len(cartItems)].quantity

RECURSIVE SumLines(_)
SumLines(rows) ==
  IF rows = {} THEN 0
  ELSE LET r == CHOOSE x \in rows : TRUE
       IN  r.quantity * r.price_at_time + SumLines(rows \ {r})

ItemsOf(items, o) == {i \in items : i.order_id = o}

\* SELECT COALESCE(SUM(quantity * price_at_time), 0) FROM order_items WHERE order_id = order_uuid
calculate_order_total(items, o) == SumLines(ItemsOf(items, o))


\* ------------------------------------------------------------ the store
NullId == 0
NullRow ==
  [id |-> NullId, customer_id |-> NoUser, total_amount |-> 0, status |-> "<null>",
   shipping_address |-> NullAddress, created_at |-> 0, updated_at |-> 0]

Exists(ords, o) == o \in 1..Len(ords)

\* the tables without row level security: every row is everyone's
OwnsOrderNoRls(ords, principal, o) == Exists(ords, o)

\* policies "Users can view their own orders" / "Users can update their own orders":
\* TO authenticated USING (auth.uid() = customer_id)
OwnsOrder(ords, principal, o) ==
  /\ principal \in Users
  /\ Exists(ords, o)
  /\ ords[o].customer_id = principal

\* the orders table without its BEFORE UPDATE trigger
updated_at_kept(row, t) == row

\* BEFORE UPDATE ON orders: NEW.updated_at = NOW()
update_updated_at_column(row, t) == [row EXCEPT !.updated_at = t]

\* the row-level trigger's NEW.order_id: NEW is null when the event is a DELETE
NewOrderId(tg_op, order_id) == IF tg_op = "DELETE" THEN NullId ELSE order_id

\* validate_order_total(), fired AFTER INSERT OR UPDATE OR DELETE ON order_items:
\* the orders table after the trigger ran on the item table `items`
validate_order_total(ords, items, tg_op, order_id, t) ==
  LET new_order_id == NewOrderId(tg_op, order_id)
      calculated_total == calculate_order_total(items, new_order_id)
  IN  IF Exists(ords, new_order_id) /\ ords[new_order_id].total_amount # calculated_total
      THEN [ords EXCEPT ![new_order_id] =
              update_updated_at_column(
                [ords[new_order_id] EXCEPT !.total_amount = calculated_total], t)]
      ELSE ords

\* the trigger's IF ... UPDATE orders SET total_amount = calculated_total, run with a
\* calculated_total that was computed earlier in the transaction
validate_order_total_update(ords, new_order_id, calculated_total, t) ==
  IF Exists(ords, new_order_id) /\ ords[new_order_id].total_amount # calculated_total
  THEN [ords EXCEPT ![new_order_id] =
          update_updated_at_column(
            [ords[new_order_id] EXCEPT !.total_amount = calculated_total], t)]
  ELSE ords

\* CHECK (quantity > 0), CHECK (price_at_time >= 0), REFERENCES products(id)
ItemRowError(row) ==
  IF row.quantity <= 0 \/ row.price_at_time < 0 THEN "CheckViolation"
  ELSE IF row.product_id \notin Products THEN "ForeignKeyViolation"
  ELSE ""

\* ------------------------------------------------------------- results
NoData == [row |-> NullRow, items |-> {}]
NoStats == [totalOrders |-> 0, totalSpent |-> 0, ordersByStatus |-> [st \in validStatuses |-> 0]]
\* {data, error} of a call, with the call's name and the order id it was given;
\* `created` is the id of the orders row the call inserted (NullId when none) and
\* `faulted` tells that a store operation of the call failed for no reason of the call
Returned(op, arg, error, data, created) ==
  [op |-> op, arg |-> arg, error |-> error, faulted |-> (error = "StoreError"),
   hasData |-> (error = ""), row |-> data.row, items |-> data.items, created |-> created,
   rows |-> <<>>, stats |-> NoStats, caller |-> NoUser, settled |-> "fulfilled"]
NoResult ==
  [op |-> "none", arg |-> NullId, error |-> "", faulted |-> FALSE,
   hasData |-> FALSE, row |-> NullRow, items |-> {}, created |-> NullId,
   rows |-> <<>>, stats |-> NoStats, caller |-> NoUser, settled |-> "none"]

\* the promise of an async function that threw outside its try block: it is rejected
\* with `reason` and carries no {data, error}
Rejected(op, principal, reason) ==
  [NoResult EXCEPT !.op = op, !.caller = principal, !.error = reason,
                   !.settled = "rejected"]

\* {data, error} of a call whose data is a list of orders, or the statistics, with
\* the principal the call ran as
ReturnedRows(op, principal, error, rows) ==
  [Returned(op, NullId, error, NoData, NullId) EXCEPT !.rows = rows, !.caller = principal]
ReturnedStats(op, principal, error, stats) ==
  [Returned(op, NullId, error, NoData, NullId) EXCEPT !.stats = stats, !.caller = principal]

NoLocal == [principal |-> NoUser, order_id |-> NullId, cartItems |-> <<>>]

\* ------------------------------------------------------------ auth store
\* user objects carry their id and their user_metadata; null is NullUser, and the
\* null session is NullSession
NullUser == [id |-> NoUser, meta |-> 0]
NullSession == [user |-> NullUser]
\* location.state of a location that was not reached through ProtectedRoute
NoFrom == [pathname |-> "", search |-> ""]

\* lines 8-10: user: null, session: null, loading: true
InitialAuthState == [user |-> NullUser, session |-> NullSession, loading |-> TRUE]

\* partialize: (state) => ({ user: state.user, session: state.session })
partialize(state) == [user |-> state.user, session |-> state.session]

\* persist: the stored part is merged into the initial state when the store is created
Hydrate(stored) ==
  [InitialAuthState EXCEPT !.user = stored.user, !.session = stored.session]

\* session?.user || null
UserOf(session) == session.user

\* lines 13-26: the state initialize sets
initialize(state, session, fails) ==
  IF fails THEN [state EXCEPT !.loading = FALSE]
  ELSE [state EXCEPT !.session = session, !.user = UserOf(session), !.loading = FALSE]

\* lines 19-21: the listener
onAuthStateChange(state, session) ==
  [state EXCEPT !.session = session, !.user = UserOf(session)]

\* line 48: set({ session: data.session, user: data.user })
signIn(state, session) == [state EXCEPT !.session = session, !.user = session.user]

\* line 56: set({ session: null, user: null })
signOut(state) == [state EXCEPT !.session = NullSession, !.user = NullUser]

\* line 66: set({ user: data.user })
updateProfile(state, user) == [state EXCEPT !.user = user]

\* ProtectedRoute.jsx 29-42: what the component returns
ProtectedRoute(state) ==
  IF state.loading THEN "spinner"
  ELSE IF state.user = NullUser THEN "redirect"
  ELSE "children"

\* `action` is the navigation type that led to the location (POP when the browser
\* loaded it, PUSH for a link, REPLACE for a navigation with replace).
\* the router renders the location with the store's state: a protected page goes
\* through ProtectedRoute, and <Navigate to="/login" state={{ from: location }}
\* replace /> replaces the location
Render(state, r) ==
  IF r.pathname \notin ProtectedPaths THEN [r EXCEPT !.view = "page"]
  ELSE IF ProtectedRoute(state) = "redirect"
       THEN [pathname |-> LoginPath, search |-> "",
             from |-> [pathname |-> r.pathname, search |-> r.search], view |-> "page",
             action |-> "REPLACE"]
       ELSE [r EXCEPT !.view = ProtectedRoute(state)]

\* a LoginPage that forgets where the user came from
fromNowhere(r) == HomePath

\* LoginPage.jsx 26: location.state?.from?.pathname || '/'
from(r) == IF r.from.pathname = "" THEN HomePath ELSE r.from.pathname

\* ------------------------------------------------------ customer service
\* handle_new_user: the row the signup trigger inserts; the store's clock starts
\* after the signups
handle_new_user(u) ==
  [id |-> u, email |-> IF u = "u1" THEN "u1@shop" ELSE "u2@shop", full_name |-> "",
   created_at |-> "0", updated_at |-> 0]

\* const { id, created_at, ...safeUpdates } = updates
safeUpdates(updates) == [updates EXCEPT !.id = Absent, !.created_at = Absent]

\* UPDATE customers SET <the keys present>
SetColumns(row, patch) ==
  [row EXCEPT !.id = IF patch.id = Absent THEN @ ELSE patch.id,
              !.email = IF patch.email = Absent THEN @ ELSE patch.email,
              !.full_name = IF patch.full_name = Absent THEN @ ELSE patch.full_name,
              !.created_at = IF patch.created_at = Absent THEN @ ELSE patch.created_at]

\* customerService.js 40-65: [error, customers]; the policy "Users can update their
\* own profile" admits the row whose id is auth.uid(), before and after; email is
\* UNIQUE; the trigger update_customers_updated_at stamps the row
updateCustomerProfile(rows, principal, updates, fault, t) ==
  IF principal \notin Users THEN [error |-> "NotAuthenticated", customers |-> rows]
  ELSE IF fault THEN [error |-> "StoreError", customers |-> rows]
  ELSE LET new == update_updated_at_column(
                    SetColumns(rows[principal], safeUpdates(updates)), t)
       IN  IF new.id # principal
           THEN [error |-> "PolicyViolation", customers |-> rows]
           ELSE IF \E u \in Users \ {principal} : rows[u].email = new.email
           THEN [error |-> "UniqueViolation", customers |-> rows]
           ELSE [error |-> "", customers |-> [rows EXCEPT ![principal] = new]]

\* ------------------------------------------------- hooks of the orders feature
NoError == "<null>"
\* useOrder(orderId): undefined, or the id of an order
OrderIdProps == {NullId, 1, 2}
\* the props no request was made for: orders is still the initial []
NoProps == [status |-> NoStatus, limit |-> 0, page |-> 0]

\* part_002 20-23: the useState calls of useOrders; `orders` is the request the held
\* list was returned for
useOrdersState ==
  [props |-> NoProps, orders |-> NoProps, totalCount |-> 0, loading |-> TRUE,
   error |-> NoError]

\* part_002 76-78: the useState calls of useOrder; `order` is the id the held order
\* was returned for
useOrderState == [orderId |-> NullId, order |-> NullId, loading |-> TRUE, error |-> NoError]

\* result.count || 0: getUserOrders passes on the count of a query that asks for none
CountOr0(request) == 0

\* part_002 27-28 / 47, 87-88 / 107: the state set before the await
Fetching(state) == [state EXCEPT !.loading = TRUE, !.error = NoError]
Refetching(state) == [state EXCEPT !.loading = TRUE]

\* part_002 33-40 and 51-57: the state set when the result of `request` is there
OrdersSettled(state, request, failed) ==
  IF failed THEN [state EXCEPT !.error = "Error", !.loading = FALSE]
  ELSE [state EXCEPT !.orders = request, !.totalCount = CountOr0(request),
                     !.loading = FALSE]

\* part_002 92-98 and 110-115
OrderSettled(state, request, failed) ==
  IF failed THEN [state EXCEPT !.error = "Error", !.loading = FALSE]
  ELSE [state EXCEPT !.order = request, !.loading = FALSE]

\* a sequence without its i-th element
Without(seq, i) == SubSeq(seq, 1, i - 1) \o SubSeq(seq, i + 1, Len(seq))

\* -------------------------------------------------------- useProductSearch
\* String.prototype.trim
RECURSIVE trim(_)
trim(str) ==
  IF str = <<>> THEN str
  ELSE IF Head(str) = " " THEN trim(Tail(str))
  ELSE IF str[Len(str)] = " " THEN trim(SubSeq(str, 1, Len(str) - 1))
  ELSE str

\* !searchTerm || searchTerm.trim().length < 2
TooShort(searchTerm) == searchTerm = <<>> \/ Len(trim(searchTerm)) < 2

\* results is [] or the list returned for a term; no timer is the term <<"-">>
NoResults == <<"[]">>
NoTimer == <<"-">>

\* orderService.js 470-472: the useState calls, with the term the hook was rendered
\* with; the first effect has run
useProductSearchState ==
  [term |-> <<>>, results |-> NoResults, loading |-> FALSE, error |-> NoError]

\* orderService.js 489-492: the timer's callback after its await
SearchSettled(state, term, failed) ==
  IF failed THEN [state EXCEPT !.error = "Error", !.loading = FALSE]
  ELSE [state EXCEPT !.results = term, !.loading = FALSE]

\* ----------------------------------------------------------- product images
ImagesOf(images, productId) == {i \in images : i.product_id = productId}

\* part_003 156-161: imageUrls.map((url, index) => ({...})); ids continue the table's
createProductImages(images, productId, count) ==
  { [id |-> Cardinality(images) + k, product_id |-> productId, is_primary |-> (k = 1),
     display_order |-> k - 1] : k \in 1..count }

\* part_003 256-263: existingImages?.[0]?.display_order + 1 || 0, where a select that
\* failed leaves existingImages undefined
nextOrder(images, productId, fault) ==
  LET existing == ImagesOf(images, productId)
  IN  IF fault \/ existing = {} THEN 0
      ELSE (CHOOSE i \in existing : \A j \in existing : j.display_order <= i.display_order)
             .display_order + 1

\* part_003 267-270: update({ is_primary: false }).eq('product_id', productId); the
\* policy admits authenticated callers, and the result is not looked at
unsetPrimary(images, principal, productId, fault) ==
  IF fault \/ principal \notin Users THEN images
  ELSE {IF i.product_id = productId THEN [i EXCEPT !.is_primary = FALSE] ELSE i :
          i \in images}

NoImageCall ==
  [at |-> "idle", principal |-> NoUser, productId |-> "", isPrimary |-> FALSE,
   nextOrder |-> 0]

\* ---------------------------------------------------------- getOrderById
\* select *, order_items(...) .eq('id', orderId).single(): [error, data] as read by
\* `principal`; `fault` is a failure of the store
getOrderById(ords, items, principal, orderId, fault) ==
  IF fault THEN [error |-> "StoreError", data |-> NoData]
  ELSE IF ~OwnsOrder(ords, principal, orderId) THEN [error |-> "NoRows", data |-> NoData]
  ELSE [error |-> "", data |-> [row |-> ords[orderId], items |-> ItemsOf(items, orderId)]]

\* ------------------------------------------ the reads that return lists
\* the rows of orders the select policy shows to `principal`
VisibleOrders(ords, principal) ==
  {ords[o] : o \in {x \in 1..Len(ords) : OwnsOrder(ords, principal, x)}}

\* the rows of order_items the policy "Users can view their own order items" shows
VisibleItems(ords, items, principal) ==
  {i \in items : OwnsOrder(ords, principal, i.order_id)}

\* .order('created_at', { ascending: false })
RECURSIVE OrderByCreatedDesc(_)
OrderByCreatedDesc(rows) ==
  IF rows = {} THEN <<>>
  ELSE LET first == CHOOSE r \in rows : \A x \in rows : x.created_at <= r.created_at
       IN  <<first>> \o OrderByCreatedDesc(rows \ {first})

\* .range(offset, offset + limit - 1) / .limit(limit)
Range(rows, offset, limit) ==
  SubSeq(rows, offset + 1, IF Len(rows) < offset + limit THEN Len(rows) ELSE offset + limit)

\* the embedded order_items of each row
WithItems(rows, visibleItems) ==
  [k \in 1..Len(rows) |->
     [row |-> rows[k], items |-> {i \in visibleItems : i.order_id = rows[k].id}]]

\* lines 73-118: [error, rows]
getUserOrders(ords, items, principal, status, limit, offset, fault) ==
  IF principal \notin Users THEN [error |-> "NotAuthenticated", rows |-> <<>>]
  ELSE IF fault THEN [error |-> "StoreError", rows |-> <<>>]
  ELSE LET selected == {r \in VisibleOrders(ords, principal) :
                           /\ r.customer_id = principal
                           /\ status # NoStatus => r.status = status}
       IN  [error |-> "",
            rows |-> WithItems(Range(OrderByCreatedDesc(selected), offset, limit),
                               VisibleItems(ords, items, principal))]

\* select id, total_amount, status, created_at, order_items (quantity); the item id
\* only keeps lines of equal quantity apart
RecentColumns(entry) ==
  [row |-> [id |-> entry.row.id, total_amount |-> entry.row.total_amount,
            status |-> entry.row.status, created_at |-> entry.row.created_at],
   items |-> {[id |-> i.id, quantity |-> i.quantity] : i \in entry.items}]

\* lines 258-288: [error, rows]
getRecentOrders(ords, items, principal, limit, fault) ==
  IF principal \notin Users THEN [error |-> "NotAuthenticated", rows |-> <<>>]
  ELSE IF fault THEN [error |-> "StoreError", rows |-> <<>>]
  ELSE LET selected == {r \in VisibleOrders(ords, principal) : r.customer_id = principal}
           page == WithItems(Range(OrderByCreatedDesc(selected), 0, limit),
                             VisibleItems(ords, items, principal))
       IN  [error |-> "", rows |-> [k \in 1..Len(page) |-> RecentColumns(page[k])]]

\* data.reduce((sum, order) => sum + parseFloat(order.total_amount), 0)
RECURSIVE totalSpent(_)
totalSpent(rows) ==
  IF rows = {} THEN 0
  ELSE LET r == CHOOSE x \in rows : TRUE
       IN  r.total_amount + totalSpent(rows \ {r})

\* lines 219-251: [error, stats]
getOrderStats(ords, principal, fault) ==
  IF principal \notin Users THEN [error |-> "NotAuthenticated", stats |-> NoStats]
  ELSE IF fault THEN [error |-> "StoreError", stats |-> NoStats]
  ELSE LET data == {r \in VisibleOrders(ords, principal) : r.customer_id = principal}
       IN  [error |-> "",
            stats |-> [totalOrders |-> Cardinality(data),
                       totalSpent |-> totalSpent(data),
                       ordersByStatus |->
                         [st \in validStatuses |-> Cardinality({r \in data : r.status = st})]]]

\* ------------------------------------------------------ get_customer_stats
\* SUM(total_amount) of README.md 601-606
RECURSIVE SumTotalAmount(_)
SumTotalAmount(rows) ==
  IF rows = {} THEN 0
  ELSE LET r == CHOOSE x \in rows : TRUE
       IN  r.total_amount + SumTotalAmount(rows \ {r})

\* MAX(created_at) of README.md 607-611: null, written 0, over no rows
MaxCreatedAt(rows) ==
  IF rows = {} THEN 0
  ELSE CHOOSE t \in {r.created_at : r \in rows} : \A r \in rows : r.created_at <= t

\* README.md 593-618: the function is SECURITY DEFINER, so it reads every row of
\* orders whatever the caller's policies show
get_customer_stats(ords, custs, customer_uuid) ==
  LET mine == {ords[o] : o \in {x \in 1..Len(ords) : ords[x].customer_id = customer_uuid}}
  IN  [total_orders |-> Cardinality(mine),
       total_spent |-> SumTotalAmount({r \in mine : r.status # "cancelled"}),
       last_order_date |-> MaxCreatedAt(mine),
       member_since |-> custs[customer_uuid].created_at]

NoCustomerStats ==
  [total_orders |-> 0, total_spent |-> 0, last_order_date |-> 0, member_since |-> "<null>"]

\* customerService.js 71-89: [error, data]
getCustomerStats(ords, custs, principal, fault) ==
  IF principal \notin Users THEN [error |-> "NotAuthenticated", data |-> NoCustomerStats]
  ELSE IF fault THEN [error |-> "StoreError", data |-> NoCustomerStats]
  ELSE [error |-> "", data |-> get_customer_stats(ords, custs, principal)]

\* ----------------------------------------------------------- createOrder
\* lines 17-41: auth.getUser(), the total and the insert into orders:
\* [error, orders, id]
createOrderInsert(ords, principal, shippingAddress, cartItems, fault, t) ==
  LET total == ToDecimal2(totalAmount(cartItems))
      id == Len(ords) + 1
      row == [id |-> id, customer_id |-> principal, total_amount |-> total,
              status |-> "pending", shipping_address |-> shippingAddress,
              created_at |-> t, updated_at |-> t]
      orderError == IF principal \notin Users THEN "NotAuthenticated"
                    ELSE IF fault THEN "StoreError"
                    ELSE IF total < 0 THEN "CheckViolation"
                    ELSE IF shippingAddress = NullAddress THEN "NotNullViolation"
                    ELSE ""
  IN  IF orderError # ""
      THEN [error |-> orderError, orders |-> ords, id |-> NullId]
      ELSE [error |-> "", orders |-> Append(ords, row), id |-> id]

\* a map that takes the order from the table (the newest row) instead of the order
\* the call inserted
orderItemsOfNewestOrder(order_id, cartItems, firstId) ==
  { [id |-> firstId + k - 1, order_id |-> Len(orders),
     product_id |-> cartItems[k].product_id, quantity |-> cartItems[k].quantity,
     price_at_time |-> ToDecimal2(cartItems[k].price)] : k \in 1..Len(cartItems) }

\* cartItems.map(item => ({order_id, product_id, quantity, price_at_time: item.price}))
orderItems(order_id, cartItems, firstId) ==
  { [id |-> firstId + k - 1, order_id |-> order_id,
     product_id |-> cartItems[k].product_id, quantity |-> cartItems[k].quantity,
     price_at_time |-> ToDecimal2(cartItems[k].price)] : k \in 1..Len(cartItems) }

\* lines 43-55: one insert statement for all the lines, with its trigger:
\* [error, orders, order_items, nextItemId]
createOrderItems(ords, items, firstId, principal, order_id, cartItems, fault, t) ==
  LET rows == orderItems(order_id, cartItems, firstId)
      itemsError ==
        IF fault THEN "StoreError"
        ELSE IF rows # {} /\ ~OwnsOrder(ords, principal, order_id) THEN "RlsViolation"
        ELSE IF \E r \in rows : ItemRowError(r) = "CheckViolation" THEN "CheckViolation"
        ELSE IF \E r \in rows : ItemRowError(r) # "" THEN "ForeignKeyViolation"
        ELSE ""
  IN  IF itemsError # ""
      THEN [error |-> itemsError, orders |-> ords, order_items |-> items,
            nextItemId |-> firstId]
      ELSE [error |-> "",
            orders |-> IF rows = {} THEN ords
                       ELSE validate_order_total(ords, items \cup rows, "INSERT", order_id, t),
            order_items |-> items \cup rows,
            nextItemId |-> firstId + Len(cartItems)]

\* ----------------------------------------------------- updateOrderStatus
\* a status update that also writes the total: the row's total is reset
StatusPatchResettingTotal(row, newStatus) ==
  [row EXCEPT !.status = newStatus, !.total_amount = 0]

\* .update({ status: newStatus })
StatusPatch(row, newStatus) == [row EXCEPT !.status = newStatus]

\* an update that reaches the row whoever owns it
updateOrderStatusAnyOwner(ords, principal, orderId, newStatus, fault, t) ==
  IF newStatus \notin validStatuses
  THEN [error |-> "InvalidStatus", orders |-> ords, row |-> NullRow]
  ELSE IF fault THEN [error |-> "StoreError", orders |-> ords, row |-> NullRow]
  ELSE IF ~Exists(ords, orderId)
  THEN [error |-> "NoRows", orders |-> ords, row |-> NullRow]
  ELSE LET row == update_updated_at_column(StatusPatch(ords[orderId], newStatus), t)
       IN  [error |-> "", orders |-> [ords EXCEPT ![orderId] = row], row |-> row]

\* lines 166-188: [error, orders, row]: what the call returns and the table after it
updateOrderStatus(ords, principal, orderId, newStatus, fault, t) ==
  IF newStatus \notin validStatuses
  THEN [error |-> "InvalidStatus", orders |-> ords, row |-> NullRow]
  ELSE IF fault THEN [error |-> "StoreError", orders |-> ords, row |-> NullRow]
  ELSE IF ~OwnsOrder(ords, principal, orderId)
  THEN [error |-> "NoRows", orders |-> ords, row |-> NullRow]
  ELSE LET row == update_updated_at_column(StatusPatch(ords[orderId], newStatus), t)
       IN  [error |-> "", orders |-> [ords EXCEPT ![orderId] = row], row |-> row]

\* ----------------------------------------------------------- cancelOrder
\* line 296: ['pending', 'processing'].includes(order?.status)
canCancelOrder(order) == order.status \in {"pending", "processing"}

\* a check that lets shipped orders through
CancelAllowedShipped(status) == status \in {"pending", "processing", "shipped"}

\* line 204: the check cancelOrder makes on the order it read
CancelAllowed(status) == status \in {"pending", "processing"}

\* lines 198-206: the read and the two checks: the error thrown, "" when none
cancelOrderCheck(ords, items, principal, orderId, fault) ==
  LET got == getOrderById(ords, items, principal, orderId, fault)
  IN  IF got.error # "" THEN "OrderNotFound"
      ELSE IF ~CancelAllowed(got.data.row.status) THEN "NotCancellable"
      ELSE ""

\* ------------------------------------------------------------------ Init
Init ==
  /\ orders = <<>>
  /\ order_items = {}
  /\ nextItemId = 1
  /\ products = [p \in Products |-> 8999]
  /\ now = 0
  /\ pc = [c \in Clients |-> "idle"]
  /\ local = [c \in Clients |-> NoLocal]
  /\ last = NoResult
  /\ authStore = InitialAuthState
  /\ authStorage = [user |-> NullUser, session |-> NullSession]
  /\ authClient = [session |-> NullSession, listening |-> FALSE]
  /\ router = [pathname |-> HomePath, search |-> "", from |-> NoFrom, view |-> "page",
              action |-> "POP"]
  /\ customers = [u \in Users |-> handle_new_user(u)]
  /\ ordersHook = [useOrdersState EXCEPT !.props = [status |-> NoStatus, limit |-> 10,
                                                    page |-> 1]]
  /\ fetches = <<ordersHook.props>>
  /\ orderHook = [useOrderState EXCEPT !.loading = FALSE]
  /\ orderFetches = <<>>
  /\ searchHook = [useProductSearchState EXCEPT !.results = NoResults]
  /\ searches = [timer |-> NoTimer, requests |-> <<>>]
  /\ product_images = {}
  /\ imageCalls = [c \in Clients |-> NoImageCall]

\* the ids a caller may name: those of the rows there are, and one there is not
OrderIds == 1..(Len(orders) + 1)

\* ------------------------------------------- calls run as one action
\* useProductSearch is rendered with another term: the cleanup of the previous
\* effect (clearTimeout) and the effect
UseProductSearch(searchTerm) ==
  /\ UNCHANGED exceptSearch
  /\ searchTerm # searchHook.term
  /\ IF TooShort(searchTerm)
     THEN /\ searchHook' = [searchHook EXCEPT !.term = searchTerm, !.results = NoResults,
                                              !.loading = FALSE]
          /\ searches' = [searches EXCEPT !.timer = NoTimer]
     ELSE /\ searchHook' = [searchHook EXCEPT !.term = searchTerm, !.loading = TRUE]
          /\ searches' = [searches EXCEPT !.timer = searchTerm]

\* the debounce delay has passed: the timer's callback runs up to its await
TimerFires ==
  /\ UNCHANGED <<exceptSearch, searchHook>>
  /\ searches.timer # NoTimer
  /\ Len(searches.requests) < MaxFetches
  /\ searches' = [timer |-> NoTimer,
                  requests |-> Append(searches.requests, searches.timer)]

\* the i-th outstanding searchProducts resolves and the callback runs to its end
SearchArrives(i, failed) ==
  /\ UNCHANGED exceptSearch
  /\ i \in 1..Len(searches.requests)
  /\ searchHook' = SearchSettled(searchHook, searches.requests[i], failed)
  /\ searches' = [searches EXCEPT !.requests = Without(@, i)]

\* useOrders is rendered with other props: the effect runs fetchOrders up to its await
UseOrders(props) ==
  /\ UNCHANGED <<exceptHooks, orderHook, orderFetches>>
  /\ props # ordersHook.props
  /\ Len(fetches) < MaxFetches
  /\ ordersHook' = [Fetching(ordersHook) EXCEPT !.props = props]
  /\ fetches' = Append(fetches, props)

\* refetch() of useOrders up to its await
RefetchOrders ==
  /\ UNCHANGED <<exceptHooks, orderHook, orderFetches>>
  /\ Len(fetches) < MaxFetches
  /\ ordersHook' = Refetching(ordersHook)
  /\ fetches' = Append(fetches, ordersHook.props)

\* the i-th outstanding getUserOrders resolves and its caller runs to its end
OrdersArrive(i, failed) ==
  /\ UNCHANGED <<exceptHooks, orderHook, orderFetches>>
  /\ i \in 1..Len(fetches)
  /\ ordersHook' = OrdersSettled(ordersHook, fetches[i], failed)
  /\ fetches' = Without(fetches, i)

\* useOrder is rendered with another orderId: the effect
UseOrder(orderId) ==
  /\ UNCHANGED <<exceptHooks, ordersHook, fetches>>
  /\ orderId # orderHook.orderId
  /\ IF orderId = NullId
     THEN /\ orderHook' = [orderHook EXCEPT !.orderId = orderId, !.loading = FALSE]
          /\ UNCHANGED orderFetches
     ELSE /\ Len(orderFetches) < MaxFetches
          /\ orderHook' = [Fetching(orderHook) EXCEPT !.orderId = orderId]
          /\ orderFetches' = Append(orderFetches, orderId)

\* refetch() of useOrder up to its await
RefetchOrder ==
  /\ UNCHANGED <<exceptHooks, ordersHook, fetches>>
  /\ orderHook.orderId # NullId
  /\ Len(orderFetches) < MaxFetches
  /\ orderHook' = Refetching(orderHook)
  /\ orderFetches' = Append(orderFetches, orderHook.orderId)

\* the i-th outstanding getOrderById resolves and its caller runs to its end
OrderArrives(i, failed) ==
  /\ UNCHANGED <<exceptHooks, ordersHook, fetches>>
  /\ i \in 1..Len(orderFetches)
  /\ orderHook' = OrderSettled(orderHook, orderFetches[i], failed)
  /\ orderFetches' = Without(orderFetches, i)

UpdateCustomerProfile(principal, updates) ==
  /\ UNCHANGED exceptCustomers
  /\ \E fault \in BOOLEAN :
     LET out == updateCustomerProfile(customers, principal, updates, fault, now + 1)
     IN  /\ principal \in Users => now < MaxTime
         /\ customers' = out.customers
         /\ now' = IF out.error = "" THEN now + 1 ELSE now
         /\ last' = [Returned("updateCustomerProfile", NullId, out.error, NoData, NullId)
                       EXCEPT !.caller = principal]

\* a browser opens the application at a URL: the store is created with its initial
\* state and persist merges the stored user and session into it; nothing listens to
\* the auth client yet
LoadPage(pathname, search) ==
  /\ UNCHANGED exceptAuth
  /\ LET store == Hydrate(authStorage)
     IN  /\ authStore' = store
         /\ authStorage' = authStorage
         /\ authClient' = [authClient EXCEPT !.listening = FALSE]
         /\ router' = Render(store, [pathname |-> pathname, search |-> search,
                                      from |-> NoFrom, view |-> "page",
                                      action |-> "POP"])

\* initialize (App.jsx calls it once after the page has loaded): getSession, set,
\* subscribe; `fails` is getSession throwing
Initialize(fails) ==
  /\ UNCHANGED exceptAuth
  /\ authStore.loading
  /\ LET store == initialize(authStore, authClient.session, fails)
     IN  /\ authStore' = store
         /\ authStorage' = partialize(store)
         /\ authClient' = [authClient EXCEPT !.listening = ~fails]
         /\ router' = Render(store, router)

\* LoginPage.onSubmit: signIn, then navigate(from, { replace: true }); `fails` is
\* signInWithPassword returning an error
LoginSubmit(user, fails) ==
  /\ UNCHANGED exceptAuth
  /\ router.pathname = LoginPath
  /\ IF fails
     THEN UNCHANGED authVars
     ELSE LET granted == [user |-> [id |-> user, meta |-> 0]]
              store == signIn(authStore, granted)
          IN  /\ authClient' = [authClient EXCEPT !.session = granted]
              /\ authStore' = store
              /\ authStorage' = partialize(store)
              /\ router' = Render(store, [pathname |-> from(router), search |-> "",
                                           from |-> NoFrom, view |-> "page",
                                           action |-> "REPLACE"])

\* Navbar: signOut; `fails` is supabase.auth.signOut returning an error
SignOut(fails) ==
  /\ UNCHANGED exceptAuth
  /\ IF fails
     THEN UNCHANGED authVars
     ELSE LET store == signOut(authStore)
          IN  /\ authClient' = [authClient EXCEPT !.session = NullSession]
              /\ authStore' = store
              /\ authStorage' = partialize(store)
              /\ router' = Render(store, router)

\* updateProfile(updates): updateUser, which tells the listener USER_UPDATED with the
\* new session before it returns, then set({ user: data.user }); without a session
\* updateUser returns an error
UpdateProfile(meta, fails) ==
  /\ UNCHANGED exceptAuth
  /\ IF fails \/ authClient.session = NullSession
     THEN UNCHANGED authVars
     ELSE LET updated == [user |-> [authClient.session.user EXCEPT !.meta = meta]]
              heard == IF authClient.listening
                       THEN onAuthStateChange(authStore, updated) ELSE authStore
              store == updateProfile(heard, updated.user)
          IN  /\ authClient' = [authClient EXCEPT !.session = updated]
              /\ authStore' = store
              /\ authStorage' = partialize(store)
              /\ router' = Render(store, router)

\* the auth client loses its session (it expired, or it was ended elsewhere) and
\* tells its listeners SIGNED_OUT
SessionEnds ==
  /\ UNCHANGED exceptAuth
  /\ authClient.session # NullSession
  /\ LET store == IF authClient.listening
                   THEN onAuthStateChange(authStore, NullSession) ELSE authStore
     IN  /\ authClient' = [authClient EXCEPT !.session = NullSession]
         /\ authStore' = store
         /\ authStorage' = partialize(store)
         /\ router' = Render(store, router)

\* the user follows a link inside the application
FollowLink(pathname, search) ==
  /\ UNCHANGED <<exceptAuth, authStore, authStorage, authClient>>
  /\ router' = Render(authStore, [pathname |-> pathname, search |-> search,
                                   from |-> NoFrom, view |-> "page",
                                   action |-> "PUSH"])

CreateOrderUpTo(maxOrders, principal, shippingAddress, cartItems) ==
  /\ UNCHANGED clientVars
  /\ UNCHANGED <<products, pc, local>>
  /\ \E failing \in 0..3 :
     LET ins == createOrderInsert(orders, principal, shippingAddress, cartItems,
                                  failing = 1, now + 1)
         its == createOrderItems(ins.orders, order_items, nextItemId, principal, ins.id,
                                 cartItems, failing = 2, now + 2)
         got == getOrderById(its.orders, its.order_items, principal, ins.id, failing = 3)
     IN  /\ principal \in Users => (Len(orders) < maxOrders /\ now < MaxTime)
         /\ IF ins.error # ""
            THEN /\ UNCHANGED <<orders, order_items, nextItemId, now>>
                 /\ last' = Returned("createOrder", NullId, ins.error, NoData, NullId)
            ELSE IF its.error # ""
            THEN /\ orders' = ins.orders
                 /\ now' = now + 1
                 /\ UNCHANGED <<order_items, nextItemId>>
                 /\ last' = Returned("createOrder", NullId, its.error, NoData, ins.id)
            ELSE /\ orders' = its.orders
                 /\ order_items' = its.order_items
                 /\ nextItemId' = its.nextItemId
                 /\ now' = now + 2
                 /\ last' = Returned("createOrder", NullId, got.error, got.data, ins.id)

\* createOrder while the table holds fewer than MaxOrders rows
CreateOrder(principal, shippingAddress, cartItems) ==
  CreateOrderUpTo(MaxOrders, principal, shippingAddress, cartItems)

\* createOrder in the specification of the reads, which holds more orders
PlaceOrder(principal, shippingAddress, cartItems) ==
  CreateOrderUpTo(MaxOrdersRead, principal, shippingAddress, cartItems)

\* ({ status, limit = 10, offset = 0 } = {}): the parameter is destructured before
\* the try block is entered, and null has no properties to destructure
BindsOptions(options) == ~options.isNull

GetUserOrders(principal, options) ==
  /\ UNCHANGED clientVars
  /\ UNCHANGED <<orders, order_items, nextItemId, products, now, pc, local>>
  /\ IF ~BindsOptions(options)
     THEN last' = Rejected("getUserOrders", principal, "TypeError")
     ELSE \E fault \in BOOLEAN :
            LET got == getUserOrders(orders, order_items, principal, options.status,
                                     options.limit, options.offset, fault)
            IN  last' = ReturnedRows("getUserOrders", principal, got.error, got.rows)

GetRecentOrders(principal, limit) ==
  /\ UNCHANGED clientVars
  /\ UNCHANGED <<orders, order_items, nextItemId, products, now, pc, local>>
  /\ \E fault \in BOOLEAN :
     LET got == getRecentOrders(orders, order_items, principal, limit, fault)
     IN  last' = ReturnedRows("getRecentOrders", principal, got.error, got.rows)

GetOrderStats(principal) ==
  /\ UNCHANGED clientVars
  /\ UNCHANGED <<orders, order_items, nextItemId, products, now, pc, local>>
  /\ \E fault \in BOOLEAN :
     LET got == getOrderStats(orders, principal, fault)
     IN  last' = ReturnedStats("getOrderStats", principal, got.error, got.stats)

GetCustomerStats(principal) ==
  /\ UNCHANGED clientVars
  /\ UNCHANGED <<orders, order_items, nextItemId, products, now, pc, local>>
  /\ \E fault \in BOOLEAN :
     LET got == getCustomerStats(orders, customers, principal, fault)
     IN  last' = ReturnedStats("getCustomerStats", principal, got.error, got.data)

GetOrderById(principal, orderId) ==
  /\ UNCHANGED clientVars
  /\ UNCHANGED <<orders, order_items, nextItemId, products, now, pc, local>>
  /\ \E fault \in BOOLEAN :
     LET got == getOrderById(orders, order_items, principal, orderId, fault)
     IN  last' = Returned("getOrderById", orderId, got.error, got.data, NullId)

UpdateOrderStatus(principal, orderId, newStatus) ==
  /\ UNCHANGED clientVars
  /\ UNCHANGED <<order_items, nextItemId, products, pc, local>>
  /\ \E fault \in BOOLEAN :
     LET out == updateOrderStatus(orders, principal, orderId, newStatus, fault, now + 1)
     IN  /\ newStatus \in validStatuses => now < MaxTime
         /\ orders' = out.orders
         /\ now' = IF out.error = "" THEN now + 1 ELSE now
         /\ last' = Returned("updateOrderStatus", orderId, out.error,
                             [row |-> out.row, items |-> {}], NullId)

CancelOrder(principal, orderId) ==
  /\ UNCHANGED clientVars
  /\ UNCHANGED <<order_items, nextItemId, products, pc, local>>
  /\ \E failing \in 0..2 :
     LET thrown == cancelOrderCheck(orders, order_items, principal, orderId, failing = 1)
         out == updateOrderStatus(orders, principal, orderId, "cancelled", failing = 2,
                                  now + 1)
     IN  IF thrown # ""
         THEN /\ UNCHANGED <<orders, now>>
              /\ last' = [Returned("cancelOrder", orderId, thrown, NoData, NullId)
                            EXCEPT !.faulted = (failing = 1)]
         ELSE /\ now < MaxTime
              /\ orders' = out.orders
              /\ now' = IF out.error = "" THEN now + 1 ELSE now
              /\ last' = Returned("cancelOrder", orderId, out.error,
                                  [row |-> out.row, items |-> {}], NullId)

\* a price update that carries the new price into the lines already ordered
UpdateProductRepricing(principal, productId, price) ==
  /\ UNCHANGED clientVars
  /\ now < MaxTime
  /\ principal \in Users
  /\ ToDecimal2(price) >= 0
  /\ products' = [products EXCEPT ![productId] = ToDecimal2(price)]
  /\ order_items' = {IF i.product_id = productId
                      THEN [i EXCEPT !.price_at_time = ToDecimal2(price)] ELSE i
                      : i \in order_items}
  /\ orders' = [o \in 1..Len(orders) |->
                  [orders[o] EXCEPT !.total_amount = calculate_order_total(order_items', o)]]
  /\ now' = now + 1
  /\ last' = Returned("updateProduct", NullId, "", NoData, NullId)
  /\ UNCHANGED <<nextItemId, pc, local>>

\* products.update({ price }).eq('id', productId): policy "Authenticated users can
\* update products", CHECK (price >= 0)
UpdateProduct(principal, productId, price) ==
  /\ UNCHANGED clientVars
  /\ now < MaxTime
  /\ UNCHANGED <<orders, order_items, nextItemId, pc, local>>
  /\ \E fault \in BOOLEAN :
     LET error == IF fault THEN "StoreError"
                  ELSE IF principal \notin Users THEN "NoRows"
                  ELSE IF ToDecimal2(price) < 0 THEN "CheckViolation"
                  ELSE ""
     IN  /\ products' = IF error = "" THEN [products EXCEPT ![productId] = ToDecimal2(price)]
                        ELSE products
         /\ now' = IF error = "" THEN now + 1 ELSE now
         /\ last' = Returned("updateProduct", NullId, error, NoData, NullId)

\* ------------------------------------------- writes the policies admit
\* an update of total_amount on a row of orders, sent with the caller's own key: the
\* policy "Users can update their own orders" admits it for every column
PolicyUpdateTotal(principal, orderId, total) ==
  /\ UNCHANGED clientVars
  /\ now < MaxTime
  /\ OwnsOrder(orders, principal, orderId)
  /\ ToDecimal2(total) >= 0
  /\ orders' = [orders EXCEPT ![orderId] =
                  update_updated_at_column(
                    [orders[orderId] EXCEPT !.total_amount = ToDecimal2(total)], now + 1)]
  /\ now' = now + 1
  /\ last' = Returned("update", orderId, "",
                      [row |-> orders'[orderId], items |-> {}], NullId)
  /\ UNCHANGED <<order_items, nextItemId, products, pc, local>>

\* -------------------------- statements on order_items (trigger events)
\* INSERT INTO order_items ... (the SQL editor, as in the migration's example)
SqlInsertItem(orderId, line) ==
  /\ UNCHANGED clientVars
  /\ now < MaxTime
  /\ Exists(orders, orderId)
  /\ LET row == [id |-> nextItemId, order_id |-> orderId, product_id |-> line.product_id,
                 quantity |-> line.quantity, price_at_time |-> ToDecimal2(line.price)]
     IN  /\ ItemRowError(row) = ""
         /\ order_items' = order_items \cup {row}
  /\ nextItemId' = nextItemId + 1
  /\ orders' = validate_order_total(orders, order_items', "INSERT", orderId, now + 1)
  /\ now' = now + 1
  /\ last' = Returned("sql", orderId, "", NoData, NullId)
  /\ UNCHANGED <<products, pc, local>>

\* UPDATE order_items SET quantity = ... WHERE id = ...
SqlUpdateItem(item, quantity) ==
  /\ UNCHANGED clientVars
  /\ now < MaxTime
  /\ item \in order_items
  /\ quantity # item.quantity
  /\ order_items' = (order_items \ {item}) \cup {[item EXCEPT !.quantity = quantity]}
  /\ orders' = validate_order_total(orders, order_items', "UPDATE", item.order_id, now + 1)
  /\ now' = now + 1
  /\ last' = Returned("sql", item.order_id, "", NoData, NullId)
  /\ UNCHANGED <<nextItemId, products, pc, local>>

\* DELETE FROM order_items WHERE id = ...
SqlDeleteItem(item) ==
  /\ UNCHANGED clientVars
  /\ now < MaxTime
  /\ item \in order_items
  /\ order_items' = order_items \ {item}
  /\ orders' = validate_order_total(orders, order_items', "DELETE", item.order_id, now + 1)
  /\ now' = now + 1
  /\ last' = Returned("sql", item.order_id, "", NoData, NullId)
  /\ UNCHANGED <<nextItemId, products, pc, local>>

\* ------------------------------------------- calls run await by await
Resume(c, at, l) ==
  /\ pc' = [pc EXCEPT ![c] = at]
  /\ local' = [local EXCEPT ![c] = l]

CreateOrderInsertUpTo(maxOrders, c, principal, shippingAddress, cartItems) ==
  /\ UNCHANGED clientVars
  /\ pc[c] = "idle"
  /\ UNCHANGED <<order_items, nextItemId, products>>
  /\ \E fault \in BOOLEAN :
     LET ins == createOrderInsert(orders, principal, shippingAddress, cartItems, fault, now + 1)
     IN  /\ principal \in Users => (Len(orders) < maxOrders /\ now < MaxTime)
         /\ orders' = ins.orders
         /\ IF ins.error # ""
            THEN /\ last' = Returned("createOrder", NullId, ins.error, NoData, NullId)
                 /\ UNCHANGED <<now, pc, local>>
            ELSE /\ now' = now + 1
                 /\ Resume(c, "co_items", [principal |-> principal, order_id |-> ins.id,
                                           cartItems |-> cartItems])
                 /\ UNCHANGED last

\* the first await of createOrder while the table holds fewer than MaxOrders rows
CreateOrderInsert(c, principal, shippingAddress, cartItems) ==
  CreateOrderInsertUpTo(MaxOrders, c, principal, shippingAddress, cartItems)

\* the same in the specification of concurrent placements, which holds more orders
PlaceOrderInsert(c, principal, shippingAddress, cartItems) ==
  CreateOrderInsertUpTo(MaxOrdersConc, c, principal, shippingAddress, cartItems)

CreateOrderItems(c) ==
  /\ UNCHANGED clientVars
  /\ pc[c] = "co_items"
  /\ UNCHANGED products
  /\ \E fault \in BOOLEAN :
     LET l == local[c]
         its == createOrderItems(orders, order_items, nextItemId, l.principal, l.order_id,
                                 l.cartItems, fault, now + 1)
     IN  /\ orders' = its.orders
         /\ order_items' = its.order_items
         /\ nextItemId' = its.nextItemId
         /\ IF its.error # ""
            THEN /\ last' = Returned("createOrder", NullId, its.error, NoData, l.order_id)
                 /\ Resume(c, "idle", NoLocal)
                 /\ UNCHANGED now
            ELSE /\ now' = now + 1
                 /\ Resume(c, "co_read", l)
                 /\ UNCHANGED last

CreateOrderRead(c) ==
  /\ UNCHANGED clientVars
  /\ pc[c] = "co_read"
  /\ UNCHANGED <<orders, order_items, nextItemId, products, now>>
  /\ \E fault \in BOOLEAN :
     LET l == local[c]
         got == getOrderById(orders, order_items, l.principal, l.order_id, fault)
     IN  /\ last' = Returned("createOrder", NullId, got.error, got.data, l.order_id)
         /\ Resume(c, "idle", NoLocal)

CancelRead(c, principal, orderId) ==
  /\ UNCHANGED clientVars
  /\ pc[c] = "idle"
  /\ UNCHANGED <<orders, order_items, nextItemId, products, now>>
  /\ \E fault \in BOOLEAN :
     LET thrown == cancelOrderCheck(orders, order_items, principal, orderId, fault)
     IN  IF thrown # ""
         THEN /\ last' = [Returned("cancelOrder", orderId, thrown, NoData, NullId)
                            EXCEPT !.faulted = fault]
              /\ UNCHANGED <<pc, local>>
         ELSE /\ now < MaxTime
              /\ Resume(c, "cancel_update", [principal |-> principal, order_id |-> orderId,
                                             cartItems |-> <<>>])
              /\ UNCHANGED last

CancelUpdate(c) ==
  /\ UNCHANGED clientVars
  /\ pc[c] = "cancel_update"
  /\ UNCHANGED <<order_items, nextItemId, products>>
  /\ \E fault \in BOOLEAN :
     LET l == local[c]
         out == updateOrderStatus(orders, l.principal, l.order_id, "cancelled", fault, now + 1)
     IN  /\ orders' = out.orders
         /\ now' = IF out.error = "" THEN now + 1 ELSE now
         /\ last' = Returned("cancelOrder", l.order_id, out.error,
                             [row |-> out.row, items |-> {}], NullId)
         /\ Resume(c, "idle", NoLocal)

\* ------------------------------- addProductImage one await at a time
\* createProduct for a product that is new, so that it has no images: the rows of
\* its images go in with one insert, or not at all
CreateProduct(principal, productId, count) ==
  /\ UNCHANGED <<exceptImages, imageCalls>>
  /\ ImagesOf(product_images, productId) = {}
  /\ Cardinality(product_images) + count <= MaxImages
  /\ \E fault \in BOOLEAN :
       product_images' =
         IF fault \/ principal \notin Users THEN product_images
         ELSE product_images \cup createProductImages(product_images, productId, count)

\* addProductImage up to its first await and the select's answer
AddImageRead(c, principal, productId, isPrimary) ==
  /\ UNCHANGED <<exceptImages, product_images>>
  /\ imageCalls[c].at = "idle"
  /\ Cardinality(product_images) < MaxImages
  /\ \E fault \in BOOLEAN :
       imageCalls' = [imageCalls EXCEPT ![c] =
         [at |-> IF isPrimary THEN "unset" ELSE "insert", principal |-> principal,
          productId |-> productId, isPrimary |-> isPrimary,
          nextOrder |-> nextOrder(product_images, productId, fault)]]

\* the update that unsets the primary images
AddImageUnset(c) ==
  /\ UNCHANGED exceptImages
  /\ imageCalls[c].at = "unset"
  /\ \E fault \in BOOLEAN :
       product_images' = unsetPrimary(product_images, imageCalls[c].principal,
                                      imageCalls[c].productId, fault)
  /\ imageCalls' = [imageCalls EXCEPT ![c].at = "insert"]

\* the insert and the return
AddImageInsert(c) ==
  /\ UNCHANGED exceptImages
  /\ imageCalls[c].at = "insert"
  /\ \E fault \in BOOLEAN :
       LET call == imageCalls[c]
           row == [id |-> Cardinality(product_images) + 1, product_id |-> call.productId,
                   is_primary |-> call.isPrimary, display_order |-> call.nextOrder]
       IN  product_images' =
             IF fault \/ call.principal \notin Users
                  \/ Cardinality(product_images) >= MaxImages
             THEN product_images
             ELSE product_images \cup {row}
  /\ imageCalls' = [imageCalls EXCEPT ![c] = NoImageCall]

\* ------------------- inserts into order_items as concurrent transactions
\* INSERT INTO order_items in a transaction of its own (READ COMMITTED): the row is
\* inserted, not yet visible to others, and the trigger computes calculated_total
\* over the committed rows and its own
ItemInsertBegin(c, orderId, line) ==
  /\ UNCHANGED clientVars
  /\ pc[c] = "idle"
  /\ now < MaxTime
  /\ Exists(orders, orderId)
  /\ LET row == [id |-> nextItemId, order_id |-> orderId, product_id |-> line.product_id,
                 quantity |-> line.quantity, price_at_time |-> ToDecimal2(line.price)]
     IN  /\ ItemRowError(row) = ""
         /\ Resume(c, "tx_commit",
                   [principal |-> NoUser, order_id |-> orderId, cartItems |-> <<line>>,
                    row |-> row,
                    calculated_total |->
                      calculate_order_total(order_items \cup {row}, NewOrderId("INSERT", orderId))])
  /\ nextItemId' = nextItemId + 1
  /\ UNCHANGED <<orders, order_items, products, now, last>>

\* the rest of the trigger (IF ... UPDATE orders) and the commit, which shows the row
ItemInsertCommit(c) ==
  /\ UNCHANGED clientVars
  /\ pc[c] = "tx_commit"
  /\ LET l == local[c]
     IN  /\ order_items' = order_items \cup {l.row}
         /\ orders' = validate_order_total_update(orders, l.order_id, l.calculated_total,
                                                  now + 1)
         /\ last' = Returned("sql", l.order_id, "", NoData, NullId)
  /\ now' = now + 1
  /\ Resume(c, "idle", NoLocal)
  /\ UNCHANGED <<nextItemId, products>>

\* ------------------------------------------------------ specifications
\* the writing calls of the order service
Next ==
  \/ \E p \in Principals, a \in Addresses, cart \in Carts : CreateOrder(p, a, cart)
  \/ \E p \in Principals, o \in OrderIds, s \in StatusInputs : UpdateOrderStatus(p, o, s)
  \/ \E p \in Principals, o \in OrderIds : CancelOrder(p, o)

Spec == Init /\ [][Next]_vars

\* orders placed and read while the product service changes prices
NextCatalog ==
  \/ \E p \in Principals, a \in Addresses, cart \in Carts : CreateOrder(p, a, cart)
  \/ \E p \in Principals, q \in Products, x \in PriceInputs : UpdateProduct(p, q, x)
  \/ \E p \in Principals, o \in OrderIds : GetOrderById(p, o)

SpecCatalog == Init /\ [][NextCatalog]_vars

\* createOrder and every other write the store admits on orders and order_items
NextStore ==
  \/ \E p \in Principals, a \in Addresses, cart \in Carts : CreateOrder(p, a, cart)
  \/ \E p \in Principals, o \in OrderIds, s \in StatusInputs : UpdateOrderStatus(p, o, s)
  \/ \E p \in Principals, o \in OrderIds, t \in TotalInputs : PolicyUpdateTotal(p, o, t)
  \/ \E o \in OrderIds, l \in CartLines : SqlInsertItem(o, l)
  \/ \E i \in order_items, q \in QuantityInputs : SqlUpdateItem(i, q)
  \/ \E i \in order_items : SqlDeleteItem(i)

SpecStore == Init /\ [][NextStore]_vars

\* createOrder await by await in the slots of Clients, among reads
NextConc ==
  \/ \E c \in Clients, p \in Principals, a \in Addresses, cart \in Carts :
       CreateOrderInsert(c, p, a, cart)
  \/ \E c \in Clients : CreateOrderItems(c)
  \/ \E c \in Clients : CreateOrderRead(c)
  \/ \E p \in Principals, o \in OrderIds : GetOrderById(p, o)

SpecConc == Init /\ [][NextConc]_vars

\* cancelOrder await by await in the slots of Clients, among status updates
NextCancel ==
  \/ \E p \in Principals, a \in Addresses, cart \in Carts : CreateOrder(p, a, cart)
  \/ \E c \in Clients, p \in Principals, o \in OrderIds : CancelRead(c, p, o)
  \/ \E c \in Clients : CancelUpdate(c)
  \/ \E p \in Principals, o \in OrderIds, s \in StatusInputs : UpdateOrderStatus(p, o, s)

SpecCancel == Init /\ [][NextCancel]_vars

\* the reads of the order service over the orders of several customers
NextRead ==
  \/ \E p \in Principals, a \in Addresses, cart \in Carts : PlaceOrder(p, a, cart)
  \/ \E p \in Principals, o \in OrderIds : GetOrderById(p, o)
  \/ \E p \in Principals, options \in OptionInputs : GetUserOrders(p, options)
  \/ \E p \in Principals, l \in RecentLimits : GetRecentOrders(p, l)
  \/ \E p \in Principals : GetOrderStats(p)

SpecRead == Init /\ [][NextRead]_vars

\* the two statistics of a customer whose orders are placed and cancelled
NextStats ==
  \/ \E p \in Principals, a \in Addresses, cart \in Carts : PlaceOrder(p, a, cart)
  \/ \E p \in Principals, o \in OrderIds, s \in StatusInputs : UpdateOrderStatus(p, o, s)
  \/ \E p \in Principals, o \in OrderIds : CancelOrder(p, o)
  \/ \E p \in Principals : GetOrderStats(p)
  \/ \E p \in Principals : GetCustomerStats(p)

SpecStats == Init /\ [][NextStats]_vars

\* line items inserted into placed orders by concurrent transactions
NextItems ==
  \/ \E p \in Principals, a \in Addresses, cart \in Carts : CreateOrder(p, a, cart)
  \/ \E c \in Clients, o \in OrderIds, l \in CartLines : ItemInsertBegin(c, o, l)
  \/ \E c \in Clients : ItemInsertCommit(c)

SpecItems == Init /\ [][NextItems]_vars

\* createOrder calls of several clients, await by await
NextPlace ==
  \/ \E c \in Clients, p \in Principals, a \in Addresses, cart \in Carts :
       PlaceOrderInsert(c, p, a, cart)
  \/ \E c \in Clients : CreateOrderItems(c)
  \/ \E c \in Clients : CreateOrderRead(c)

SpecPlace == Init /\ [][NextPlace]_vars

\* orders placed with every kind of shipping address, and their later life
NextAddress ==
  \/ \E p \in Principals, a \in AddressInputs, cart \in Carts : CreateOrder(p, a, cart)
  \/ \E p \in Principals, o \in OrderIds, s \in StatusInputs : UpdateOrderStatus(p, o, s)
  \/ \E p \in Principals, o \in OrderIds : CancelOrder(p, o)

SpecAddress == Init /\ [][NextAddress]_vars

\* the auth store, the router and the pages that use them
NextAuth ==
  \/ \E path \in Paths, search \in Searches : LoadPage(path, search)
  \/ \E fails \in BOOLEAN : Initialize(fails)
  \/ \E u \in Users, fails \in BOOLEAN : LoginSubmit(u, fails)
  \/ \E fails \in BOOLEAN : SignOut(fails)
  \/ \E meta \in MetaInputs, fails \in BOOLEAN : UpdateProfile(meta, fails)
  \/ SessionEnds
  \/ \E path \in Paths, search \in Searches : FollowLink(path, search)

SpecAuth == Init /\ [][NextAuth]_vars

\* the customer service on the rows of customers
NextProfile ==
  \E p \in Principals, updates \in UpdatesInputs : UpdateCustomerProfile(p, updates)

SpecProfile == Init /\ [][NextProfile]_vars

\* a page that uses useOrders
NextOrdersHook ==
  \/ \E props \in HookProps : UseOrders(props)
  \/ RefetchOrders
  \/ \E i \in 1..MaxFetches, failed \in BOOLEAN : OrdersArrive(i, failed)

SpecOrdersHook == Init /\ [][NextOrdersHook]_vars

\* pages that use useOrders and useOrder
NextHooks ==
  \/ NextOrdersHook
  \/ \E o \in OrderIdProps : UseOrder(o)
  \/ RefetchOrder
  \/ \E i \in 1..MaxFetches, failed \in BOOLEAN : OrderArrives(i, failed)

SpecHooks == Init /\ [][NextHooks]_vars

\* a page that uses useProductSearch
NextSearch ==
  \/ \E term \in SearchTerms : UseProductSearch(term)
  \/ TimerFires
  \/ \E i \in 1..MaxFetches, failed \in BOOLEAN : SearchArrives(i, failed)

SpecSearch == Init /\ [][NextSearch]_vars

\* the functions of the product service that write product_images
NextImages ==
  \/ \E p \in Principals, product \in Products, count \in ImageCounts :
       CreateProduct(p, product, count)
  \/ \E c \in Clients, p \in Principals, product \in Products, isPrimary \in BOOLEAN :
       AddImageRead(c, p, product, isPrimary)
  \/ \E c \in Clients : AddImageUnset(c)
  \/ \E c \in Clients : AddImageInsert(c)

SpecImages == Init /\ [][NextImages]_vars

\* ================================================================ claims
DerivedTotal(o) == calculate_order_total(order_items, o)
Total(o) == orders[o].total_amount
Written(o) == ~Exists(orders, o) \/ orders'[o] # orders[o]

\* C1: after every completed createOrder, updateOrderStatus or cancelOrder call each
\* stored order's total_amount is the sum of quantity x price_at_time over its lines
\* (every state of Spec is a state between two calls).
C1_TotalIsLineSum ==
  \A o \in 1..Len(orders) : Total(o) = DerivedTotal(o)

\* C2: a createOrder that returns an error because one of its store operations failed
\* leaves no orders row and no order_items row of that call behind.
C2_FailedCreateLeavesNoRows ==
  (last.op = "createOrder" /\ last.error \notin {"", "NotAuthenticated"})
    => (~Exists(orders, last.created) /\ ItemsOf(order_items, last.created) = {})

AllowedTransitions ==
  { <<"pending", "processing">>, <<"processing", "shipped">>, <<"shipped", "delivered">>,
    <<"pending", "cancelled">>, <<"processing", "cancelled">> }

\* C3: updateOrderStatus by the owner, the store not failing, succeeds exactly when
\* (current status, newStatus) is an allowed transition; for every other pair it
\* returns an error and leaves status and updated_at as they were.
C3_TransitionClosure ==
  [][\A p \in Principals, o \in OrderIds, s \in StatusInputs :
       (last'.op = "updateOrderStatus" /\ last'.arg = o /\ ~last'.faulted
          /\ OwnsOrder(orders, p, o) /\ UpdateOrderStatus(p, o, s))
         => /\ (last'.error = "") <=> (<<orders[o].status, s>> \in AllowedTransitions)
            /\ <<orders[o].status, s>> \notin AllowedTransitions
                 => /\ orders'[o].status = orders[o].status
                    /\ orders'[o].updated_at = orders[o].updated_at]_vars

\* C4: cancelOrder on an order whose status is shipped, delivered or cancelled (the
\* statuses for which canCancelOrder is false) returns an error, writes nothing to
\* the store and leaves the status as it was.
C4_CancelRefused ==
  [][\A p \in Principals, o \in OrderIds :
       (last'.op = "cancelOrder" /\ last'.arg = o
          /\ Exists(orders, o) /\ ~canCancelOrder(orders[o]) /\ CancelOrder(p, o))
         => /\ last'.error # ""
            /\ ~last'.hasData
            /\ orders' = orders
            /\ now' = now]_vars

C4_Witness ==
  /\ last.op = "cancelOrder"
  /\ last.error = "NotCancellable"
  /\ Exists(orders, last.arg)
  /\ orders[last.arg].status = "shipped"
  /\ ItemsOf(order_items, last.arg) # {}

\* an order whose createOrder call has inserted the row and not yet its lines
InFlight(o) == \E c \in Clients : pc[c] = "co_items" /\ local[c].order_id = o
CartOf(o) == (CHOOSE c \in Clients : pc[c] = "co_items" /\ local[c].order_id = o)

\* C5: no read made during a createOrder call returns the new order with fewer line
\* items than the submitted cart has lines.
C5_NoPartialOrderRead ==
  [][\A p \in Principals, o \in OrderIds :
       (last'.op = "getOrderById" /\ last'.arg = o /\ last'.hasData /\ InFlight(o)
          /\ GetOrderById(p, o))
         => Cardinality(last'.items) = Len(local[CartOf(o)].cartItems)]_vars

\* C6: a change of a product's price leaves every line item's price_at_time and every
\* order's total_amount as they were.
C6_PriceChangeKeepsOrders ==
  [][\A p \in Principals, q \in Products, x \in PriceInputs :
       (last'.op = "updateProduct" /\ UpdateProduct(p, q, x))
         => /\ \A i \in order_items :
                 \E j \in order_items' : j.id = i.id /\ j.price_at_time = i.price_at_time
            /\ Len(orders') = Len(orders)
            /\ \A o \in 1..Len(orders) : orders'[o].total_amount = Total(o)]_vars

C6_Witness ==
  /\ last.op = "updateProduct"
  /\ last.error = ""
  /\ \E i \in order_items :
       /\ products[i.product_id] # i.price_at_time
       /\ Exists(orders, i.order_id)
       /\ Total(i.order_id) = DerivedTotal(i.order_id)

\* C7: whenever the line items of an order change (insert, update, delete), the
\* order's total_amount is, when the statement completes, the sum of quantity x
\* price_at_time over the lines it then has (0 when none remain).
C7_TotalFollowsLines ==
  [][\A o \in 1..Len(orders) :
       ItemsOf(order_items', o) # ItemsOf(order_items, o)
         => orders'[o].total_amount = calculate_order_total(order_items', o)]_vars

\* C8: no write a client may issue on orders (createOrder's insert, the update of
\* updateOrderStatus and cancelOrder, any update the owner's policy admits) leaves a
\* written row whose total_amount differs from the sum derived from its line items.
C8_ClientWritesKeepTotal ==
  [][(last'.op \in {"createOrder", "updateOrderStatus", "cancelOrder", "update"})
       => \A o \in 1..Len(orders') :
            Written(o) => orders'[o].total_amount = calculate_order_total(order_items', o)]_vars

\* C9: createOrder with an empty cart returns an error and creates no row.
C9_EmptyCartRejected ==
  [][\A p \in Principals, a \in Addresses :
       (last'.op = "createOrder" /\ CreateOrder(p, a, <<>>))
         => /\ last'.error # ""
            /\ orders' = orders
            /\ order_items' = order_items]_vars

\* C10: cancelOrder by the owner on a pending or processing order, the store not
\* failing, succeeds and sets the status to cancelled with total_amount as before.
C10_CancelSucceeds ==
  [][\A p \in Principals, o \in OrderIds :
       (last'.op = "cancelOrder" /\ last'.arg = o /\ ~last'.faulted
          /\ OwnsOrder(orders, p, o) /\ canCancelOrder(orders[o]) /\ CancelOrder(p, o))
         => /\ last'.error = ""
            /\ last'.hasData
            /\ last'.row = orders'[o]
            /\ orders'[o].status = "cancelled"
            /\ orders'[o].total_amount = Total(o)]_vars

C10_Witness ==
  /\ last.op = "cancelOrder"
  /\ last.error = ""
  /\ Exists(orders, last.arg)
  /\ orders[last.arg].status = "cancelled"
  /\ ItemsOf(order_items, last.arg) # {}
  /\ Total(last.arg) > 0

\* the client-side amount `mills` is the stored amount `cents`
SameAmount(cents, mills) == cents * 10 = mills

\* C11: a successful createOrder returns the stored order: status pending, customer_id
\* the caller, one line item per cart line with the line's quantity and the line's
\* price as price_at_time, and total_amount the sum of quantity x price over the cart.
C11_CreateReturnsCart ==
  [][\A p \in Principals, a \in Addresses, cart \in Carts :
       (last'.op = "createOrder" /\ last'.error = "" /\ CreateOrder(p, a, cart))
         => /\ last'.row = orders'[last'.created]
            /\ last'.items = ItemsOf(order_items', last'.created)
            /\ last'.row.status = "pending"
            /\ last'.row.customer_id = p
            /\ Cardinality(last'.items) = Len(cart)
            /\ \A k \in 1..Len(cart) :
                 \E i \in last'.items :
                   /\ i.product_id = cart[k].product_id
                   /\ i.quantity = cart[k].quantity
                   /\ SameAmount(i.price_at_time, cart[k].price)
            /\ last'.row.total_amount = ToDecimal2(totalAmount(cart))]_vars

\* the step returned an error and wrote nothing
Refused ==
  /\ last'.error # ""
  /\ ~last'.hasData
  /\ orders' = orders
  /\ order_items' = order_items

\* C12: without an authenticated principal createOrder, updateOrderStatus and
\* cancelOrder each return an error and leave orders and order_items as they were.
C12_AnonymousWritesRefused ==
  [][Refused
       \/ /\ last'.op = "createOrder"
               => \A a \in Addresses, cart \in Carts : ~CreateOrder(NoUser, a, cart)
          /\ last'.op = "updateOrderStatus"
               => \A s \in StatusInputs : ~UpdateOrderStatus(NoUser, last'.arg, s)
          /\ last'.op = "cancelOrder" => ~CancelOrder(NoUser, last'.arg)]_vars

C12_Witness ==
  /\ last.op = "createOrder"
  /\ last.error = "NotAuthenticated"
  /\ Len(orders) = 1
  /\ orders[1].status = "pending"
  /\ ItemsOf(order_items, 1) # {}

\* the tables as they would be with the orders of everyone but `principal` altered
\* and their line items gone
OthersAltered(principal) ==
  [o \in 1..Len(orders) |->
     IF orders[o].customer_id = principal THEN orders[o]
     ELSE [orders[o] EXCEPT !.status = IF @ = "pending" THEN "cancelled" ELSE "pending",
                            !.total_amount = @ + 100,
                            !.shipping_address = "elsewhere"]]
OwnItems(principal) ==
  {i \in order_items : orders[i.order_id].customer_id = principal}

\* the entries of a returned list are orders of `principal`, each with its own lines
OwnEntries(rows, principal) ==
  \A k \in 1..Len(rows) :
    /\ Exists(orders, rows[k].row.id)
    /\ orders[rows[k].row.id].customer_id = principal
    /\ \A i \in rows[k].items :
         \E j \in ItemsOf(order_items, rows[k].row.id) : j.id = i.id

\* C13: every order and line item that getUserOrders, getOrderById, getRecentOrders or
\* getOrderStats returns to a principal belongs to an order of that principal, and the
\* result is the same whatever the orders of the other principals are.  The reads
\* write nothing, so the list and the statistics a read returned are compared with
\* the tables of the state it returned in.
C13_ReadsOwnOrdersOnly ==
  /\ [][\A p \in Principals, o \in OrderIds :
          (last'.op = "getOrderById" /\ last'.arg = o /\ last'.hasData /\ GetOrderById(p, o))
            => /\ last'.row.customer_id = p
               /\ \A i \in last'.items : i.order_id = o /\ i \in order_items
               /\ LET alone == getOrderById(OthersAltered(p), OwnItems(p), p, o, FALSE)
                  IN  last'.row = alone.data.row /\ last'.items = alone.data.items]_vars
  /\ [](LET p == last.caller
        IN  /\ (last.op = "getUserOrders" /\ last.hasData)
                 => /\ OwnEntries(last.rows, p)
                    /\ \E st \in StatusFilters, l \in Limits, f \in Offsets :
                         last.rows = getUserOrders(OthersAltered(p), OwnItems(p),
                                                   p, st, l, f, FALSE).rows
            /\ (last.op = "getRecentOrders" /\ last.hasData)
                 => /\ OwnEntries(last.rows, p)
                    /\ \E l \in RecentLimits :
                         last.rows = getRecentOrders(OthersAltered(p), OwnItems(p),
                                                     p, l, FALSE).rows
            /\ (last.op = "getOrderStats" /\ last.hasData)
                 => /\ last.stats.totalOrders =
                         Cardinality({o \in 1..Len(orders) : orders[o].customer_id = p})
                    /\ last.stats = getOrderStats(OthersAltered(p), p, FALSE).stats)

C13_Witness ==
  /\ Len(orders) = 2
  /\ orders[1].customer_id # orders[2].customer_id
  /\ ItemsOf(order_items, 1) # {} /\ ItemsOf(order_items, 2) # {}
  /\ last.op = "getUserOrders"
  /\ last.error = ""
  /\ last.caller = orders[2].customer_id
  /\ Len(last.rows) = 1
  /\ last.rows[1].items # {}

\* the orders of everyone but `principal` are as they were
OthersUntouched(principal) ==
  \A x \in 1..Len(orders) : orders[x].customer_id # principal => orders'[x] = orders[x]

\* C14: no updateOrderStatus or cancelOrder call of a principal changes any field of
\* an order of another principal, and no step changes the customer_id of an order.
C14_OthersOrdersUntouched ==
  [][orders' # orders
       => /\ last'.op = "updateOrderStatus"
               => \A p \in Principals, s \in StatusInputs :
                    UpdateOrderStatus(p, last'.arg, s) => OthersUntouched(p)
          /\ last'.op = "cancelOrder"
               => \A p \in Principals :
                    CancelOrder(p, last'.arg) => OthersUntouched(p)
          /\ Len(orders') >= Len(orders)
          /\ \A x \in 1..Len(orders) : orders'[x].customer_id = orders[x].customer_id]_vars

C14_Witness ==
  /\ last.op \in {"updateOrderStatus", "cancelOrder"}
  /\ last.error \in {"NoRows", "OrderNotFound"}
  /\ ~last.faulted
  /\ Exists(orders, last.arg)
  /\ orders[last.arg].customer_id \in Users
  /\ ItemsOf(order_items, last.arg) # {}

\* C15: a successful updateOrderStatus or cancelOrder refreshes the order's updated_at
\* and changes no other field but status: customer_id, total_amount, shipping_address,
\* created_at and the line items are as before (and so is every other order).
C15_StatusUpdateFrame ==
  [][(last'.op \in {"updateOrderStatus", "cancelOrder"} /\ last'.error = "")
       => LET o == last'.arg
          IN  /\ Exists(orders, o)
              /\ orders'[o].updated_at = now'
              /\ orders'[o].updated_at > orders[o].updated_at
              /\ orders'[o] = [orders[o] EXCEPT !.status = orders'[o].status,
                                               !.updated_at = orders'[o].updated_at]
              /\ \A x \in 1..Len(orders) : x # o => orders'[x] = orders[x]
              /\ Len(orders') = Len(orders)
              /\ order_items' = order_items]_vars

C15_Witness ==
  /\ last.op \in {"updateOrderStatus", "cancelOrder"}
  /\ last.error = ""
  /\ orders[last.arg].status # "pending"
  /\ orders[last.arg].updated_at = now
  /\ orders[last.arg].created_at < now
  /\ orders[last.arg].total_amount > 0
  /\ ItemsOf(order_items, last.arg) # {}

\* no transaction on order o is in flight
Settled(o) == \A c \in Clients : pc[c] = "tx_commit" => local[c].order_id # o

\* C16: when line-item mutations on one order run concurrently, the total_amount
\* stored once they have all committed is the sum over the line items then present,
\* or at least the sum as of the committed state before the last commit; never a sum
\* that leaves out a committed line item.
C16_NoLostTotal ==
  [][\A c \in Clients :
       (pc[c] = "tx_commit" /\ ItemInsertCommit(c))
         => LET o == local[c].order_id
            IN  (\A d \in Clients : pc'[d] = "tx_commit" => local'[d].order_id # o)
                  => orders'[o].total_amount \in
                       {calculate_order_total(order_items', o),
                        calculate_order_total(order_items, o)}]_vars

\* the lines `items` are exactly the lines of `cart`, one for one, prices included
ExactLinesOfCart(items, cart) ==
  /\ Cardinality(items) = Len(cart)
  /\ \A k \in 1..Len(cart) :
       Cardinality({i \in items : /\ i.product_id = cart[k].product_id
                                  /\ i.quantity = cart[k].quantity
                                  /\ SameAmount(i.price_at_time, cart[k].price)})
         >= Cardinality({j \in 1..Len(cart) : cart[j] = cart[k]})

\* the stored lines `items` are the lines of `cart` after the column conversion
LinesOfCart(items, cart) ==
  /\ Cardinality(items) = Len(cart)
  /\ \A k \in 1..Len(cart) :
       Cardinality({i \in items : /\ i.product_id = cart[k].product_id
                                  /\ i.quantity = cart[k].quantity
                                  /\ i.price_at_time = ToDecimal2(cart[k].price)})
         >= Cardinality({j \in 1..Len(cart) : cart[j] = cart[k]})

\* Isolation of concurrent createOrder calls: each call attaches its line items to
\* its own order only and leaves the other orders alone, and a call that succeeds
\* returns its own order, whose line items are the lines of its own cart as the
\* columns store them and whose total is the sum over these lines.
PlacementsIsolated ==
  [][\A c \in Clients :
       /\ (pc[c] = "co_items" /\ CreateOrderItems(c))
            => LET own == local[c].order_id
               IN  /\ \A i \in order_items' \ order_items : i.order_id = own
                   /\ order_items \subseteq order_items'
                   /\ \A o \in 1..Len(orders) : o # own => orders'[o] = orders[o]
       /\ (pc[c] = "co_read" /\ last'.error = "" /\ CreateOrderRead(c))
            => /\ last'.row.id = local[c].order_id
               /\ last'.row.customer_id = local[c].principal
               /\ \A i \in last'.items : i.order_id = local[c].order_id
               /\ LinesOfCart(last'.items, local[c].cartItems)
               /\ last'.row.total_amount = SumLines(last'.items)]_vars

\* C17: in every interleaving of concurrent createOrder calls a call that succeeds
\* returns its own order, whose line items are exactly the lines of its own cart
\* and whose total is the sum of these lines, and no call attaches a line item to
\* the order of another call.
C17_PlacementsIndependent ==
  [][\A c \in Clients :
       /\ (pc[c] = "co_items" /\ CreateOrderItems(c))
            => \A i \in order_items' \ order_items : i.order_id = local[c].order_id
       /\ (pc[c] = "co_read" /\ last'.error = "" /\ CreateOrderRead(c))
            => /\ last'.row.id = local[c].order_id
               /\ \A i \in last'.items : i.order_id = local[c].order_id
               /\ ExactLinesOfCart(last'.items, local[c].cartItems)
               /\ last'.row.total_amount = SumLines(last'.items)]_vars

C17_Witness ==
  /\ Len(orders) = 2
  /\ last.op = "createOrder"
  /\ last.error = ""
  /\ last.created = 1
  /\ last.items # {}
  /\ \E c \in Clients :
       /\ pc[c] = "co_read"
       /\ local[c].order_id = 2
       /\ local[c].cartItems # <<>>
       /\ LinesOfCart(ItemsOf(order_items, 2), local[c].cartItems)

\* C18: every call of the order service resolves, never rejects, and resolves to a
\* result in which exactly one of data and error is non-null.
C18_AlwaysResolves ==
  last.op # "none"
    => /\ last.settled = "fulfilled"
       /\ last.hasData # (last.error # "")

\* the carts with a line of quantity zero or less
NonPositiveCarts == {cart \in Carts : \E k \in 1..Len(cart) : cart[k].quantity <= 0}

\* C19: createOrder with a cart that holds a line of quantity zero or less returns
\* an error and leaves no orders row and no order_items row behind, and every
\* stored line item has a quantity above zero.
C19_NonPositiveQuantityRejected ==
  /\ [][last'.op = "createOrder"
          => \A p \in Principals, a \in Addresses, cart \in NonPositiveCarts :
               CreateOrder(p, a, cart)
                 => /\ last'.error # ""
                    /\ ~last'.hasData
                    /\ orders' = orders
                    /\ order_items' = order_items]_vars
  /\ [](\A i \in order_items : i.quantity > 0)

\* C20: createOrder with a missing or an empty shippingAddress returns an error and
\* creates no rows, and every stored order has a non-empty shipping_address.
C20_AddressRequired ==
  /\ [][last'.op = "createOrder"
          => \A p \in Principals, a \in {EmptyAddress, NullAddress}, cart \in Carts :
               CreateOrder(p, a, cart)
                 => /\ last'.error # ""
                    /\ ~last'.hasData
                    /\ orders' = orders
                    /\ order_items' = order_items]_vars
  /\ [](\A o \in 1..Len(orders) :
          orders[o].shipping_address \notin {EmptyAddress, NullAddress})

\* C21: the children of ProtectedRoute are on screen only while the store has
\* loading = false and a user, and that user is signed in at the auth client; the
\* spinner is on screen exactly while a protected page is loading, and a protected
\* page without a user is replaced by /login.
C21_ChildrenOnlyWhenSignedIn ==
  /\ router.view = "children"
       => /\ ~authStore.loading
          /\ authStore.user # NullUser
          /\ authClient.session.user.id = authStore.user.id
  /\ router.view = "spinner" <=> (router.pathname \in ProtectedPaths /\ authStore.loading)
  /\ (router.pathname \in ProtectedPaths /\ ~authStore.loading)
       => authStore.user # NullUser

\* C22: a successful sign-in on LoginPage navigates to the page ProtectedRoute
\* redirected from, whose children are then on screen, and to '/' when /login was
\* not reached through such a redirect.
C22_LoginReturnsToPage ==
  [][\A u \in Users :
       LoginSubmit(u, FALSE)
         => IF router.from = NoFrom
            THEN router'.pathname = HomePath
            ELSE /\ router'.pathname = router.from.pathname
                 /\ router'.view = "children"
                 /\ authStore'.user.id = u]_vars

C22_Witness ==
  /\ router.pathname \in ProtectedPaths
  /\ router.action = "REPLACE"
  /\ router.view = "children"
  /\ authStore.user # NullUser

\* C24: whenever the update of a cancelOrder call is applied to an order, the order's
\* status at that moment is pending or processing, whatever status updates ran
\* between the call's read and its update.
C24_CancelAppliesToOpenOrder ==
  [][\A c \in Clients :
       (pc[c] = "cancel_update" /\ orders' # orders /\ CancelUpdate(c))
         => CancelAllowed(orders[local[c].order_id].status)]_vars

\* C23: no call of updateCustomerProfile changes the id or the email of a customers
\* row, whatever keys its updates hold.
C23_ProfileUpdateKeepsIdAndEmail ==
  [][\A u \in Users : /\ customers'[u].id = customers[u].id
                      /\ customers'[u].email = customers[u].email]_vars

\* C25: once no fetch of useOrders is outstanding and none has left an error, the
\* orders and the totalCount the hook holds are those returned for the props it was
\* rendered with last, in whatever order the responses arrived.
C25_LatestRequestWins ==
  (fetches = <<>> /\ ordersHook.error = NoError)
    => /\ ordersHook.orders = ordersHook.props
       /\ ordersHook.totalCount = CountOr0(ordersHook.props)

\* C26: in useOrders and in useOrder, when the response to the most recent fetch or
\* refetch arrives, is a success and replaces what the hook holds, the hook has
\* loading = false and error = null afterwards.
C26_SuccessClearsError ==
  [][/\ (/\ fetches # <<>>
         /\ ordersHook'.orders # ordersHook.orders
         /\ OrdersArrive(Len(fetches), FALSE))
          => (~ordersHook'.loading /\ ordersHook'.error = NoError)
     /\ (/\ orderFetches # <<>>
         /\ orderHook'.order # orderHook.order
         /\ OrderArrives(Len(orderFetches), FALSE))
          => (~orderHook'.loading /\ orderHook'.error = NoError)]_vars

\* C27: while the term of useProductSearch is empty or shorter than 2 characters
\* after trimming, results is the empty list and loading is false, whenever the
\* responses to earlier searches arrive.
C27_ShortTermShowsNothing ==
  TooShort(searchHook.term)
    => (searchHook.results = NoResults /\ ~searchHook.loading)

\* C28: in the auth store user is null exactly when session is null, and a user
\* that is not null is the user of the session; a signIn or signOut that fails
\* leaves user and session as they were.
C28_UserIsSessionUser ==
  /\ [](authStore.user = UserOf(authStore.session))
  /\ [][(LoginSubmit("u1", TRUE) \/ LoginSubmit("u2", TRUE) \/ SignOut(TRUE))
          => /\ authStore'.user = authStore.user
             /\ authStore'.session = authStore.session]_vars

\* C29: every product has at most one image with is_primary = true, and no two
\* images of a product have the same display_order.
C29_OnePrimaryDistinctOrder ==
  \A product \in Products :
    LET images == ImagesOf(product_images, product)
    IN  /\ Cardinality({i \in images : i.is_primary}) <= 1
        /\ \A i, j \in images : i.display_order = j.display_order => i = j

\* C30: whenever getOrderStats or getCustomerStats has just answered a signed-in
\* user without an error, getOrderStats' totalSpent and get_customer_stats'
\* total_spent over the orders as they are stored are the same amount, and the
\* counts of getOrderStats' ordersByStatus add up to its totalOrders
RECURSIVE SumCounts(_, _)
SumCounts(counts, statuses) ==
  IF statuses = {} THEN 0
  ELSE LET st == CHOOSE x \in statuses : TRUE
       IN  counts[st] + SumCounts(counts, statuses \ {st})

C30_CountsAddUp ==
  (last.op = "getOrderStats" /\ last.error = "")
    => SumCounts(last.stats.ordersByStatus, validStatuses) = last.stats.totalOrders

C30_TotalSpentAgrees ==
  /\ (last.op = "getOrderStats" /\ last.error = "")
       => /\ last.stats.totalSpent
               = getCustomerStats(orders, customers, last.caller, FALSE).data.total_spent
          /\ SumCounts(last.stats.ordersByStatus, validStatuses) = last.stats.totalOrders
  /\ (last.op = "getCustomerStats" /\ last.error = "")
       => last.stats.total_spent
            = getOrderStats(orders, last.caller, FALSE).stats.totalSpent

====
